---- MODULE Spec2Model ----
(***************************************************************************)
(* State-machine model of the TodoListDetail component: optimistic item    *)
(* mutations, the "complete all" bulk operation observed by polling        *)
(* (mode "vanilla") or by a SignalR connection (mode "websocket"), and the *)
(* two effects that tie timers and connections to the (listId, mode)       *)
(* props.                                                                  *)
(*                                                                         *)
(* One step of the model is one run-to-completion piece of JavaScript: an  *)
(* event handler up to its first await, the continuation of an await, a    *)
(* timer callback or a connection callback, followed by the React commit   *)
(* it causes (the cleanups and re-runs of the effects whose dependencies   *)
(* changed).                                                               *)
(***************************************************************************)
EXTENDS Integers, Sequences, FiniteSets, Bags, TLC

\* ------------------------------------------------------------- bounds
MaxLists == 2
MaxItems == 2
MaxPending == 3
MaxInst == 2
MaxConn == 2
MaxCount == 2
MaxEvents == 3

Lists == 1..MaxLists
ItemIds == 1..MaxItems
InstIds == 1..MaxInst
ConnIds == 1..MaxConn
Counts == 0..MaxCount
Modes == {"vanilla", "websocket"}
\* descriptions the server holds, and drafts the user types (" " is blank)
Descs == {"a"}
Drafts == {"a", "b", " "}

\* temporary ids `temp-${Date.now()}` live above the server's ids
TempBase == 100

\* ------------------------------------------------------------- values
NoError == "none"
NoProgress == [completed |-> -1, total |-> -1]
NoItems == <<>>

ErrFetch == "Failed to fetch list items."
ErrFetchPolling == "Failed to fetch list items during polling."
ErrAdd == "Failed to add item."
ErrToggle == "Failed to update item status."
ErrDelete == "Failed to delete item."
ErrEdit == "Failed to update item description."
ErrMock == "Failed to generate mock data."
ErrTriggerWs == "Failed to initiate complete all items (websocket mode)."
ErrTriggerVanilla == "Failed to initiate complete all items (vanilla mode)."
ErrConnLost == "Real-time connection lost. Attempting to reconnect..."
ErrConnInterrupted == "Real-time connection interrupted. Attempting to reconnect..."
ErrSubscribe == "Failed to subscribe to real-time updates for this list."
ErrConnect == "Failed to connect for real-time updates."

TodoListItem(l) ==
  { [id |-> i, todoListId |-> l, description |-> d, completed |-> c] :
      i \in ItemIds, d \in Descs, c \in BOOLEAN }

\* what getTodoListItems(l) can answer: the items of list l, in id order
ServerCollections(l) ==
  { s \in UNION { [1..n -> TodoListItem(l)] : n \in 0..MaxItems } :
      \A j \in 1..(Len(s) - 1) : s[j].id < s[j + 1].id }

AllCompleted(s) == \A j \in 1..Len(s) : s[j].completed
CountCompleted(s) == Cardinality({ j \in 1..Len(s) : s[j].completed })
IdsOf(s) == { s[j].id : j \in 1..Len(s) }

\* ------------------------------------------------------------- state
VARIABLES
  inst,               \* number of the component instance mounted last (0: none yet)
  mounted,            \* that instance is still mounted
  listId, mode,       \* props
  items, newItemDesc, error, isMocking, isCompletingAll,
  editingItemId, editingItemDesc, completionProgress,      \* useState
  pollingIntervalRef, connectionRef,                       \* useRef, per instance
  pushCleanup,        \* the connection effect's last run returned its cleanup
  timers,             \* the intervals setInterval created and nobody cleared
  conns,              \* the hub connections built so far
  groups,             \* server side: <<connection, list>> group memberships
  pending,            \* bag of the remote calls awaiting their answer
  mutBase, mutTaint,  \* ItemStore before the oldest outstanding mutation
  events,             \* mutations, list switches and transport drops so far
  last                \* the step taken last

vars == << inst, mounted, listId, mode, items, newItemDesc, error,
           isMocking, isCompletingAll, editingItemId, editingItemDesc,
           completionProgress, pollingIntervalRef, connectionRef, pushCleanup,
           timers, conns, groups, pending, mutBase, mutTaint, events,
           last >>

\* the state as one record, so that a handler is a function of it
World ==
  [ inst |-> inst, mounted |-> mounted, listId |-> listId, mode |-> mode,
    items |-> items, newItemDesc |-> newItemDesc,
    error |-> error, isMocking |-> isMocking,
    isCompletingAll |-> isCompletingAll, editingItemId |-> editingItemId,
    editingItemDesc |-> editingItemDesc,
    completionProgress |-> completionProgress,
    pollingIntervalRef |-> pollingIntervalRef, connectionRef |-> connectionRef,
    pushCleanup |-> pushCleanup, timers |-> timers, conns |-> conns,
    groups |-> groups, pending |-> pending,
    mutBase |-> mutBase, mutTaint |-> mutTaint, events |-> events,
    over |-> FALSE ]

NoConn == [state |-> "Disconnected", inst |-> 0, clist |-> 0, on |-> FALSE]

\* a setState of instance i takes effect only while i is the mounted instance
Live(w, i) == w.mounted /\ w.inst = i

\* one shape for every remote call, so that they live in one bag.
\* k: which call; inst, clist, cmode: the instance and the props its closure
\* holds; stale: (fetch) the run that issued it has ended.
Req(k, i, cl, cm) ==
  [ k |-> k, inst |-> i, clist |-> cl, cmode |-> cm, polling |-> FALSE,
    chain |-> "none", id |-> 0, flag |-> FALSE, desc |-> "", snap |-> NoItems,
    conn |-> 0, stale |-> FALSE ]

Issue(w, r) == [w EXCEPT !.pending = @ (+) SetToBag({r})]
Settle(w, r) == [w EXCEPT !.pending = @ (-) SetToBag({r})]
Awaited(r, k) == BagIn(r, pending) /\ r.k = k
Calls(k) == { r \in BagToSet(pending) : r.k = k }

RECURSIVE SumCopies(_, _)
SumCopies(B, S) ==
  IF S = {} THEN 0
  ELSE LET r == CHOOSE x \in S : TRUE IN B[r] + SumCopies(B, S \ {r})

\* a run of instance i has ended: its polling fetches still in flight get
\* their stale mark
MarkStale(w, i) ==
  LET B == w.pending
      F(r) == IF r.k = "fetch" /\ r.polling /\ r.inst = i
              THEN [r EXCEPT !.stale = TRUE] ELSE r
      D == { F(r) : r \in BagToSet(B) }
  IN  [w EXCEPT !.pending =
         [x \in D |-> SumCopies(B, { r \in BagToSet(B) : F(r) = x })]]

\* ------------------------------------------------------------- polling
\* stopPolling: clearInterval on the instance's ref, then forget it
stopPolling(w, i) ==
  IF w.pollingIntervalRef[i] # 0
  THEN [w EXCEPT !.timers = { t \in @ : t.id # w.pollingIntervalRef[i] },
                 !.pollingIntervalRef[i] = 0]
  ELSE w

\* fetchItems up to its await. cl and cm are the listId and mode of the
\* render that built this fetchItems closure. (The loading flag, which only
\* shows "Loading items...", is left out.)
fetchItems(w, i, calledDuringPolling, cl, cm, chain) ==
  LET w2 == IF ~calledDuringPolling /\ Live(w, i)
            THEN [w EXCEPT !.error = NoError] ELSE w
      w3 == IF ~calledDuringPolling /\ cm = "vanilla"
            THEN stopPolling(w2, i) ELSE w2
  IN  Issue(w3, [Req("fetch", i, cl, cm) EXCEPT
                   !.polling = calledDuringPolling, !.chain = chain])

\* (mutant) the completion test accepts an empty collection
pollCompleteAcceptsEmpty(r, data) ==
  r.cmode = "vanilla" /\ r.polling /\ AllCompleted(data)

\* the poll's completion test on a fetched collection
pollComplete(r, data) ==
  r.cmode = "vanilla" /\ r.polling /\ Len(data) > 0 /\ AllCompleted(data)

\* handleMockData's finally (and its catch when fetchItems threw)
mockSettled(w, r, threw) ==
  IF r.chain = "mock" /\ Live(w, r.inst)
  THEN [w EXCEPT !.isMocking = FALSE,
                 !.error = IF threw THEN ErrMock ELSE @]
  ELSE w

\* (mutant) a manual fetch that succeeded starts the recurring fetch anew,
\* whether or not a bulk run is under way
fetchItemsOkRestartsAlways(w, r, data) ==
  LET i  == r.inst
      w1 == IF Live(w, i) THEN [w EXCEPT !.items = data, !.error = NoError]
            ELSE w
      w2 == IF ~r.polling /\ r.cmode = "vanilla" /\ Live(w, i)
            THEN [w1 EXCEPT !.timers = @ \cup
                              {[id |-> MaxPending + 2, inst |-> i,
                                clist |-> r.clist, cmode |-> r.cmode]},
                            !.pollingIntervalRef[i] = MaxPending + 2]
            ELSE w1
  IN  w2

\* fetchItems after getTodoListItems resolved with data
fetchItemsOk(w, r, data) ==
  LET i  == r.inst
      w1 == IF Live(w, i) THEN [w EXCEPT !.items = data] ELSE w
      w2 == IF pollComplete(r, data)
            THEN LET s == stopPolling(w1, i)
                     t == MarkStale(s, i)
                 IN  IF Live(t, i) THEN [t EXCEPT !.isCompletingAll = FALSE]
                     ELSE t
            ELSE w1
      w3 == IF Live(w2, i) THEN [w2 EXCEPT !.error = NoError] ELSE w2
  IN  mockSettled(w3, r, FALSE)

\* fetchItems after getTodoListItems rejected
fetchItemsFail(w, r) ==
  LET i  == r.inst
      w1 == IF Live(w, i)
            THEN [w EXCEPT !.error = IF r.polling THEN ErrFetchPolling
                                     ELSE ErrFetch]
            ELSE w
      w2 == IF r.polling \/ r.cmode = "vanilla"
            THEN LET s == stopPolling(w1, i)
                 IN  IF Live(s, i)
                     THEN [s EXCEPT !.isCompletingAll = FALSE,
                                    !.completionProgress = NoProgress]
                     ELSE s
            ELSE w1
  IN  mockSettled(w2, r, ~r.polling)

\* ------------------------------------------------------------- hub connection
\* the connection is closed for good: the server drops it from its groups
\* and its onclose callback runs (hub.off("onclose") does not remove it)
hubClose(w, c) ==
  LET w1 == [w EXCEPT !.conns[c] = NoConn,
                      !.groups = { g \in @ : g[1] # c }]
  IN  IF Live(w1, w.conns[c].inst) THEN [w1 EXCEPT !.error = ErrConnLost]
      ELSE w1

\* the transport of c is gone: every invocation still awaited on c is
\* rejected. A rejected JoinListGroup of start().then reports, a rejected
\* LeaveListGroup goes on to its finally, which stops the connection.
rejectCalls(w, c) ==
  LET rs == { r \in BagToSet(w.pending) : r.conn = c }
      w1 == [w EXCEPT !.pending =
                [r \in BagToSet(w.pending) \ rs |-> w.pending[r]]]
      w2 == IF \E r \in rs : r.k = "join" /\ r.chain = "start"
                               /\ Live(w1, r.inst)
            THEN [w1 EXCEPT !.error = ErrSubscribe] ELSE w1
  IN  IF (\E r \in rs : r.k = "leave") /\ w2.conns[c].state = "Reconnecting"
      THEN hubClose(w2, c) ELSE w2

\* HubConnection.stop(): a connection still starting has its start() rejected,
\* a started one closes
hubStop(w, c) ==
  LET st == w.conns[c].state IN
  IF st = "Connecting"
  THEN [w EXCEPT !.conns[c].state = "StartAborted"]
  ELSE IF st \in {"Connected", "Reconnecting"}
  THEN rejectCalls(hubClose(w, c), c)
  ELSE w

FreeConns(w) ==
  { c \in ConnIds : /\ w.conns[c].state = "Disconnected"
                    /\ \A r \in BagToSet(w.pending) : r.conn # c
                    /\ \A i \in InstIds : w.connectionRef[i] # c }

\* ------------------------------------------------------------- effects
\* effect 1 (initial fetch): its cleanup, with the mode of the render it closes over
initialFetchCleanup(w, om) ==
  IF om = "vanilla" THEN stopPolling(w, w.inst) ELSE w

\* effect 1: fetchItems().catch(() => {})
initialFetchEffect(w) ==
  fetchItems(w, w.inst, FALSE, w.listId, w.mode, "none")

\* effect 2 (push connection): the cleanup returned at the end of its body,
\* with the listId of the render it closes over
connectionCleanup(w, ol) ==
  LET i  == w.inst
      c  == w.connectionRef[i]
      w1 == IF c # 0
            THEN LET a == [w EXCEPT !.conns[c].on = FALSE]
                     b == IF a.conns[c].state = "Connected"
                          THEN Issue(a, [Req("leave", i, ol, "websocket")
                                           EXCEPT !.conn = c])
                          ELSE hubStop(a, c)
                 IN  [b EXCEPT !.connectionRef[i] = 0]
            ELSE w
  IN  IF Live(w1, i) THEN [w1 EXCEPT !.completionProgress = NoProgress]
      ELSE w1

\* effect 2: the body, run by the render w
connectionEffect(w) ==
  LET i == w.inst
      c == w.connectionRef[i]
  IN
  IF w.mode # "websocket"
  THEN LET w1 == IF c # 0
                 THEN [hubStop(w, c) EXCEPT !.connectionRef[i] = 0]
                 ELSE w
       IN  [w1 EXCEPT !.completionProgress = NoProgress,
                      !.isCompletingAll = FALSE,
                      !.pushCleanup = FALSE]
  ELSE IF c # 0
  THEN [w EXCEPT !.pushCleanup = FALSE]
  ELSE IF FreeConns(w) = {}
  THEN [w EXCEPT !.over = TRUE]
  ELSE LET n == CHOOSE x \in FreeConns(w) : \A y \in FreeConns(w) : x <= y
       IN  [w EXCEPT !.conns[n] = [state |-> "Connecting", inst |-> i,
                                   clist |-> w.listId, on |-> TRUE],
                     !.connectionRef[i] = n,
                     !.pushCleanup = TRUE]

\* The React commit after a step took the last render w0 to w1: the cleanups
\* of the effects whose dependencies changed, then their bodies; effect 2 may
\* reset isCompletingAll, which re-runs effect 1 once more.
Commit(w0, w1) ==
  IF ~w1.mounted THEN w1 ELSE
  LET props == w0.listId # w1.listId \/ w0.mode # w1.mode
      e1 == props \/ w0.isCompletingAll # w1.isCompletingAll
      a == IF e1 THEN initialFetchCleanup(w1, w0.mode) ELSE w1
      b == IF props /\ a.pushCleanup THEN connectionCleanup(a, w0.listId) ELSE a
      c == IF e1 THEN initialFetchEffect(b) ELSE b
      d == IF props THEN connectionEffect(c) ELSE c
  IN  IF d.isCompletingAll # w1.isCompletingAll
      THEN initialFetchEffect(initialFetchCleanup(d, d.mode))
      ELSE d

Apply(w, l) ==
  /\ ~w.over
  /\ BagCardinality(w.pending) <= MaxPending
  /\ Len(w.items) <= MaxItems
  /\ inst' = w.inst /\ mounted' = w.mounted
  /\ listId' = w.listId /\ mode' = w.mode
  /\ items' = w.items /\ newItemDesc' = w.newItemDesc
  /\ error' = w.error
  /\ isMocking' = w.isMocking /\ isCompletingAll' = w.isCompletingAll
  /\ editingItemId' = w.editingItemId /\ editingItemDesc' = w.editingItemDesc
  /\ completionProgress' = w.completionProgress
  /\ pollingIntervalRef' = w.pollingIntervalRef
  /\ connectionRef' = w.connectionRef
  /\ pushCleanup' = w.pushCleanup
  /\ timers' = w.timers /\ conns' = w.conns /\ groups' = w.groups
  /\ pending' = w.pending
  /\ mutBase' = w.mutBase /\ mutTaint' = w.mutTaint
  /\ events' = w.events
  /\ last' = l

\* ------------------------------------------------------------- lifecycle
Init ==
  /\ inst = 0 /\ mounted = FALSE /\ listId = 1 /\ mode = "vanilla"
  /\ items = NoItems /\ newItemDesc = "" /\ error = NoError
  /\ isMocking = FALSE /\ isCompletingAll = FALSE
  /\ editingItemId = 0 /\ editingItemDesc = ""
  /\ completionProgress = NoProgress
  /\ pollingIntervalRef = [i \in InstIds |-> 0]
  /\ connectionRef = [i \in InstIds |-> 0]
  /\ pushCleanup = FALSE
  /\ timers = {} /\ conns = [c \in ConnIds |-> NoConn] /\ groups = {}
  /\ pending = EmptyBag
  /\ mutBase = NoItems /\ mutTaint = TRUE /\ events = 0
  /\ last = [op |-> "Init"]

\* the useState initial values of a fresh instance
FreshState(w, m, l) ==
  [w EXCEPT !.inst = @ + 1, !.mounted = TRUE, !.listId = l, !.mode = m,
            !.items = NoItems, !.newItemDesc = "",
            !.error = NoError, !.isMocking = FALSE, !.isCompletingAll = FALSE,
            !.editingItemId = 0, !.editingItemDesc = "",
            !.completionProgress = NoProgress, !.pushCleanup = FALSE,
            !.mutBase = NoItems, !.mutTaint = TRUE, !.events = 0]

\* App renders <TodoListDetail listId mode />: first render, then both effects
Mount(m, l) ==
  /\ ~mounted /\ inst = 0
  /\ Apply(connectionEffect(initialFetchEffect(FreshState(World, m, l))),
           [op |-> "Mount"])

\* App renders the component again after it was unmounted: a new instance,
\* with its own state and refs; what the old one left behind goes on
Remount(m, l) ==
  /\ ~mounted /\ inst > 0 /\ inst < MaxInst
  /\ Apply(connectionEffect(initialFetchEffect(FreshState(World, m, l))),
           [op |-> "Remount"])

\* App stops rendering the component: both cleanups run, state updates are dropped
Unmount ==
  /\ mounted
  /\ LET w1 == [World EXCEPT !.mounted = FALSE]
         a  == initialFetchCleanup(w1, mode)
         b  == IF pushCleanup THEN connectionCleanup(a, listId) ELSE a
     IN  Apply([b EXCEPT !.pushCleanup = FALSE], [op |-> "Unmount"])

\* the parent re-renders the mounted component with another listId or mode
SetProps(m, l) ==
  /\ mounted /\ << m, l >> # << mode, listId >> /\ events < MaxEvents
  /\ Apply(Commit(World, [World EXCEPT !.mode = m, !.listId = l,
                                      !.events = @ + 1]),
           [op |-> "SetProps"])

\* ------------------------------------------------------------- fetch answers
Taint(w, i) == IF Live(w, i) THEN [w EXCEPT !.mutTaint = TRUE] ELSE w

FetchOk(r, data) ==
  /\ Awaited(r, "fetch")
  /\ Apply(Commit(World, Taint(fetchItemsOk(Settle(World, r), r, data), r.inst)),
           [op |-> "FetchOk", polling |-> r.polling,
            done |-> pollComplete(r, data), stale |-> r.stale,
            live |-> Live(World, r.inst), clist |-> r.clist])

FetchFail(r) ==
  /\ Awaited(r, "fetch")
  /\ Apply(Commit(World, fetchItemsFail(Settle(World, r), r)),
           [op |-> "FetchFail", polling |-> r.polling, stale |-> r.stale,
            live |-> Live(World, r.inst), chain |-> r.chain])

\* ------------------------------------------------------------- complete all
\* (mutant) the early return for "nothing left to complete" is missing
completeAllRejectedNoItemCheck(w) ==
  w.isCompletingAll \/ w.isMocking

\* handleCompleteAll's two early returns
\* (mutant) the entry guard of handleCompleteAll without the busy tests
completeAllRejectedNoBusyCheck(w) ==
  \A j \in 1..Len(w.items) : w.items[j].completed

completeAllRejected(w) ==
  \/ w.isCompletingAll \/ w.isMocking
  \/ \A j \in 1..Len(w.items) : w.items[j].completed

\* handleCompleteAll up to the await of the trigger request
handleCompleteAll(w) ==
  IF completeAllRejected(w) THEN w ELSE
  LET w1 == [w EXCEPT !.error = NoError, !.isCompletingAll = TRUE]
      w2 == IF w.mode = "websocket"
            THEN [w1 EXCEPT !.completionProgress =
                    [completed |-> CountCompleted(w.items),
                     total |-> Len(w.items)]]
            ELSE stopPolling(w1, w.inst)
  IN  Issue(w2, Req("trigger", w.inst, w.listId, w.mode))

HandleCompleteAll ==
  /\ mounted
  /\ Apply(Commit(World, handleCompleteAll(World)),
           [op |-> "CompleteAll", rejected |-> completeAllRejected(World)])

\* setInterval(() => fetchItems(true), 2000), guarded by the ref
startPolling(w, r) ==
  IF w.pollingIntervalRef[r.inst] = 0
  THEN LET used == { t.id : t \in w.timers }
           n == CHOOSE x \in 1..(Cardinality(used) + 1) :
                  x \notin used /\ \A y \in 1..(x - 1) : y \in used
       IN  [w EXCEPT !.timers = @ \cup
                       {[id |-> n, inst |-> r.inst, clist |-> r.clist,
                         cmode |-> r.cmode]},
                     !.pollingIntervalRef[r.inst] = n]
  ELSE w

\* (mutant) the resolved trigger request starts no interval
triggerOkNoPolling(w, r) ==
  w

\* handleCompleteAll after the trigger request resolved (202)
triggerOk(w, r) ==
  IF r.cmode = "websocket" THEN w ELSE startPolling(w, r)

\* handleCompleteAll's catch
triggerFail(w, r) ==
  IF ~Live(w, r.inst) THEN w
  ELSE IF r.cmode = "websocket"
  THEN [w EXCEPT !.error = ErrTriggerWs, !.isCompletingAll = FALSE,
                 !.completionProgress = NoProgress]
  ELSE [w EXCEPT !.error = ErrTriggerVanilla, !.isCompletingAll = FALSE]

TriggerOk(r) ==
  /\ Awaited(r, "trigger")
  /\ Apply(Commit(World, triggerOk(Settle(World, r), r)),
           [op |-> "TriggerOk",
            skipped |-> r.cmode = "vanilla" /\ pollingIntervalRef[r.inst] # 0])

TriggerFail(r) ==
  /\ Awaited(r, "trigger")
  /\ Apply(Commit(World, triggerFail(Settle(World, r), r)),
           [op |-> "TriggerFail", live |-> Live(World, r.inst)])

\* the interval fires: fetchItems(true) of the render that started the run
PollTick(t) ==
  /\ t \in timers
  /\ Apply(fetchItems(World, t.inst, TRUE, t.clist, t.cmode, "none"),
           [op |-> "PollTick"])

\* ------------------------------------------------------------- sample data
\* (mutant) handleMockData's guard without the bulk test
mockDataRejectedNoBulkCheck(w) == w.isMocking

\* handleMockData's guard
mockDataRejected(w) == w.isMocking \/ w.isCompletingAll

\* handleMockData up to the await of createMockData
handleMockData(w) ==
  IF mockDataRejected(w) THEN w ELSE
  LET w1 == [w EXCEPT !.isMocking = TRUE, !.error = NoError]
      w2 == IF w.mode = "vanilla" THEN stopPolling(w1, w.inst) ELSE w1
  IN  Issue(w2, Req("mock", w.inst, w.listId, w.mode))

\* handleMockData after createMockData resolved: await fetchItems()
mockOk(w, r) ==
  fetchItems(w, r.inst, FALSE, r.clist, r.cmode, "mock")

\* handleMockData's catch and finally when createMockData rejected
mockFail(w, r) ==
  IF ~Live(w, r.inst) THEN w
  ELSE [w EXCEPT !.error = ErrMock, !.isMocking = FALSE]

HandleMockData ==
  /\ mounted
  /\ Apply(Commit(World, handleMockData(World)),
           [op |-> "Mock", rejected |-> mockDataRejected(World)])

MockOk(r) ==
  /\ Awaited(r, "mock")
  /\ Apply(Commit(World, mockOk(Settle(World, r), r)), [op |-> "MockOk"])

MockFail(r) ==
  /\ Awaited(r, "mock")
  /\ Apply(Commit(World, mockFail(Settle(World, r), r)), [op |-> "MockFail"])

\* ------------------------------------------------------------- mutations
MutKinds == {"create", "toggle", "delete", "edit"}
MutPending(w) == { r \in BagToSet(w.pending) : r.k \in MutKinds }

Trim(d) == IF d = " " THEN "" ELSE d

\* bookkeeping for C1: the store before the oldest outstanding mutation
MutBegin(w0, w1) ==
  IF MutPending(w0) = {}
  THEN [w1 EXCEPT !.mutBase = w0.items, !.mutTaint = FALSE,
                  !.events = @ + 1]
  ELSE [w1 EXCEPT !.events = @ + 1]

\* ... which is forgotten once none is outstanding any more
MutEnd(w) ==
  IF MutPending(w) = {}
  THEN [w EXCEPT !.mutBase = NoItems, !.mutTaint = TRUE]
  ELSE w

\* the model follows an instance through MaxEvents mutations, list switches
\* and transport drops
Room == events < MaxEvents

\* `temp-${Date.now()}`: an id no entry and no outstanding create holds
tempId(w) ==
  LET used == IdsOf(w.items) \cup { r.id : r \in MutPending(w) }
  IN  CHOOSE x \in (TempBase + 1)..(TempBase + Cardinality(used) + 1) :
        x \notin used /\ \A y \in (TempBase + 1)..(x - 1) : y \in used

addItemRejected(w) ==
  Trim(w.newItemDesc) = "" \/ w.isCompletingAll \/ w.isMocking

\* handleAddItem up to the await of createTodoListItem
handleAddItem(w) ==
  IF addItemRejected(w) THEN w ELSE
  LET t  == tempId(w)
      w1 == [w EXCEPT !.error = NoError,
                      !.items = Append(@, [id |-> t, todoListId |-> w.listId,
                                           description |-> w.newItemDesc,
                                           completed |-> FALSE]),
                      !.newItemDesc = ""]
  IN  MutBegin(w, Issue(w1, [Req("create", w.inst, w.listId, w.mode)
                               EXCEPT !.id = t, !.desc = w.newItemDesc]))

\* (mutant) the resolved create drops the provisional entry and appends newItem
createOkAppends(w, r, newItem) ==
  IF ~Live(w, r.inst) THEN w ELSE
  LET Keep(it) == it.id # r.id
  IN  [w EXCEPT !.items = IF \E j \in 1..Len(@) : @[j].id = r.id
                          THEN Append(SelectSeq(@, Keep), newItem) ELSE @,
                !.mutTaint = TRUE]

\* handleAddItem after createTodoListItem resolved with newItem
createOk(w, r, newItem) ==
  IF ~Live(w, r.inst) THEN w ELSE
  LET Swap(it) == IF it.id = r.id THEN newItem ELSE it
  IN  [w EXCEPT !.items = [j \in 1..Len(@) |-> Swap(@[j])],
                !.mutTaint = TRUE]

\* (mutant) the catch reports the failure but leaves the provisional entry
createFailKeepsItem(w, r) ==
  IF ~Live(w, r.inst) THEN w
  ELSE [w EXCEPT !.error = ErrAdd, !.newItemDesc = r.desc]

\* handleAddItem's catch
createFail(w, r) ==
  IF ~Live(w, r.inst) THEN w ELSE
  LET Keep(it) == it.id # r.id
  IN  [w EXCEPT !.error = ErrAdd, !.items = SelectSeq(@, Keep),
                !.newItemDesc = r.desc]

\* (mutant) the guard of handleToggleComplete without the inline-edit test
toggleRejectedNoEditCheck(w, item) ==
  w.isCompletingAll \/ w.isMocking

toggleRejected(w, item) ==
  w.isCompletingAll \/ w.isMocking \/ w.editingItemId = item.id

\* handleToggleComplete up to the await of updateTodoListItem
handleToggleComplete(w, item) ==
  IF toggleRejected(w, item) THEN w ELSE
  LET Flip(it) == IF it.id = item.id
                  THEN [it EXCEPT !.completed = ~it.completed] ELSE it
      w1 == [w EXCEPT !.error = NoError,
                      !.items = [j \in 1..Len(@) |-> Flip(@[j])]]
  IN  MutBegin(w, Issue(w1, [Req("toggle", w.inst, w.listId, w.mode)
                               EXCEPT !.id = item.id,
                                      !.flag = item.completed]))

\* handleToggleComplete's catch
toggleFail(w, r) ==
  IF ~Live(w, r.inst) THEN w ELSE
  LET Back(it) == IF it.id = r.id
                  THEN [it EXCEPT !.completed = r.flag] ELSE it
  IN  [w EXCEPT !.error = ErrToggle,
                !.items = [j \in 1..Len(@) |-> Back(@[j])]]

deleteRejected(w, itemId) ==
  w.isCompletingAll \/ w.isMocking \/ w.editingItemId = itemId

\* handleDeleteItem up to the await of deleteTodoListItem
handleDeleteItem(w, itemId) ==
  IF deleteRejected(w, itemId) THEN w ELSE
  LET Keep(it) == it.id # itemId
      w1 == [w EXCEPT !.error = NoError, !.items = SelectSeq(@, Keep)]
  IN  MutBegin(w, Issue(w1, [Req("delete", w.inst, w.listId, w.mode)
                               EXCEPT !.id = itemId, !.snap = w.items]))

\* handleDeleteItem's catch: setItems(originalItems)
deleteFail(w, r) ==
  IF ~Live(w, r.inst) THEN w
  ELSE [w EXCEPT !.error = ErrDelete, !.items = r.snap]

\* startEditing
startEditing(w, item) ==
  IF w.isCompletingAll \/ w.isMocking \/ item.completed THEN w
  ELSE [w EXCEPT !.editingItemId = item.id,
                 !.editingItemDesc = item.description]

\* cancelEditing
cancelEditing(w) ==
  [w EXCEPT !.editingItemId = 0, !.editingItemDesc = ""]

\* (mutant) the guard of handleUpdateItemDesc without the unchanged test
updateItemDescRejectedNoSameCheck(w, itemId) ==
  \/ w.isCompletingAll \/ w.isMocking
  \/ itemId \notin IdsOf(w.items)
  \/ Trim(w.editingItemDesc) = ""

\* the guard of handleUpdateItemDesc
updateItemDescRejected(w, itemId) ==
  \/ w.isCompletingAll \/ w.isMocking
  \/ itemId \notin IdsOf(w.items)
  \/ Trim(w.editingItemDesc) = ""
  \/ \E j \in 1..Len(w.items) :
       w.items[j].id = itemId /\ w.items[j].description = w.editingItemDesc

\* handleUpdateItemDesc up to the await of updateTodoListItem; the
\* continuation keeps the items of the render it was called in
handleUpdateItemDesc(w, itemId) ==
  IF updateItemDescRejected(w, itemId) THEN cancelEditing(w) ELSE
  LET cur == CHOOSE j \in 1..Len(w.items) : w.items[j].id = itemId
      Put(it) == IF it.id = itemId
                 THEN [it EXCEPT !.description = w.editingItemDesc] ELSE it
      w1 == cancelEditing([w EXCEPT !.error = NoError,
                                    !.items = [j \in 1..Len(@) |-> Put(@[j])]])
  IN  MutBegin(w, Issue(w1, [Req("edit", w.inst, w.listId, w.mode)
                               EXCEPT !.id = itemId,
                                      !.desc = w.items[cur].description,
                                      !.snap = w.items]))

\* handleUpdateItemDesc's catch: setItems(items.map(...originalDesc))
updateItemDescFail(w, r) ==
  IF ~Live(w, r.inst) THEN w ELSE
  LET Back(it) == IF it.id = r.id
                  THEN [it EXCEPT !.description = r.desc] ELSE it
  IN  [w EXCEPT !.error = ErrEdit,
                !.items = [j \in 1..Len(r.snap) |-> Back(r.snap[j])]]

\* a mutation's request resolved: nothing to do, but the server now differs
mutationOk(w, r) ==
  IF Live(w, r.inst) THEN [w EXCEPT !.mutTaint = TRUE] ELSE w

\* the user types d into the form and submits it
AddItem(d) ==
  /\ mounted /\ Room
  /\ LET w0 == [World EXCEPT !.newItemDesc = d]
     IN  Apply(Commit(World, handleAddItem(w0)),
               [op |-> "AddItem", rejected |-> addItemRejected(w0),
                desc |-> d])

CreateOk(r, sid) ==
  /\ Awaited(r, "create")
  /\ sid \notin IdsOf(items)
  /\ Apply(MutEnd(createOk(Settle(World, r), r,
                    [id |-> sid, todoListId |-> r.clist,
                     description |-> r.desc, completed |-> FALSE])),
           [op |-> "CreateOk", id |-> r.id, sid |-> sid, desc |-> r.desc,
            clist |-> r.clist, live |-> Live(World, r.inst)])

CreateFail(r) ==
  /\ Awaited(r, "create")
  /\ Apply(MutEnd(createFail(Settle(World, r), r)),
           [op |-> "CreateFail", id |-> r.id, desc |-> r.desc,
            live |-> Live(World, r.inst)])

\* the checkbox of entry j (disabled once the item is completed)
ToggleComplete(j) ==
  /\ mounted /\ Room /\ j \in 1..Len(items) /\ ~items[j].completed
  /\ Apply(Commit(World, handleToggleComplete(World, items[j])),
           [op |-> "Toggle", id |-> items[j].id,
            rejected |-> toggleRejected(World, items[j])])

ToggleOk(r) ==
  /\ Awaited(r, "toggle")
  /\ Apply(MutEnd(mutationOk(Settle(World, r), r)), [op |-> "ToggleOk", live |-> Live(World, r.inst)])

ToggleFail(r) ==
  /\ Awaited(r, "toggle")
  /\ Apply(MutEnd(toggleFail(Settle(World, r), r)),
           [op |-> "ToggleFail", id |-> r.id, live |-> Live(World, r.inst)])

DeleteItem(j) ==
  /\ mounted /\ Room /\ j \in 1..Len(items)
  /\ Apply(Commit(World, handleDeleteItem(World, items[j].id)),
           [op |-> "Delete", id |-> items[j].id,
            rejected |-> deleteRejected(World, items[j].id)])

DeleteOk(r) ==
  /\ Awaited(r, "delete")
  /\ Apply(MutEnd(mutationOk(Settle(World, r), r)), [op |-> "DeleteOk", live |-> Live(World, r.inst)])

DeleteFail(r) ==
  /\ Awaited(r, "delete")
  /\ Apply(MutEnd(deleteFail(Settle(World, r), r)),
           [op |-> "DeleteFail", id |-> r.id, live |-> Live(World, r.inst)])

StartEditing(j) ==
  /\ mounted /\ j \in 1..Len(items)
  /\ Apply(startEditing(World, items[j]), [op |-> "StartEditing"])

CancelEditing ==
  /\ mounted /\ editingItemId # 0
  /\ Apply(cancelEditing(World), [op |-> "CancelEditing"])

\* the user types d into the inline editor of the item being edited and saves
UpdateItemDesc(d) ==
  /\ mounted /\ Room /\ editingItemId # 0
  /\ LET w0 == [World EXCEPT !.editingItemDesc = d]
     IN  Apply(Commit(World, handleUpdateItemDesc(w0, editingItemId)),
               [op |-> "UpdateItemDesc", id |-> editingItemId, desc |-> d,
                rejected |-> updateItemDescRejected(w0, editingItemId)])

EditOk(r) ==
  /\ Awaited(r, "edit")
  /\ Apply(MutEnd(mutationOk(Settle(World, r), r)), [op |-> "EditOk", live |-> Live(World, r.inst)])

EditFail(r) ==
  /\ Awaited(r, "edit")
  /\ Apply(MutEnd(updateItemDescFail(Settle(World, r), r)),
           [op |-> "EditFail", id |-> r.id, live |-> Live(World, r.inst)])

\* ------------------------------------------------------------- push mode
\* connection.start() resolved: the then-callback
startResolved(w, c) ==
  LET i  == w.conns[c].inst
      w1 == [w EXCEPT !.conns[c].state = "Connected"]
      w2 == IF Live(w1, i) THEN [w1 EXCEPT !.error = NoError] ELSE w1
  IN  IF w2.conns[c].state = "Connected"
      THEN Issue(w2, [Req("join", i, w.conns[c].clist, "websocket")
                        EXCEPT !.conn = c, !.chain = "start"])
      ELSE w2

\* connection.start() rejected: the catch-callback
startRejected(w, c) ==
  LET i  == w.conns[c].inst
      w1 == [w EXCEPT !.conns[c] = NoConn, !.connectionRef[i] = 0]
  IN  IF Live(w1, i) THEN [w1 EXCEPT !.error = ErrConnect] ELSE w1

\* (mutant) onreconnected without the test of the connection's state
onreconnectedNoStateCheck(w, c) ==
  LET i  == w.conns[c].inst
      w1 == IF Live(w, i) THEN [w EXCEPT !.error = NoError] ELSE w
      cur == w1.connectionRef[i]
  IN  IF cur # 0
      THEN Issue(w1, [Req("join", i, w.conns[c].clist, "websocket")
                        EXCEPT !.conn = cur, !.chain = "reconn"])
      ELSE w1

\* connection.onreconnected: the callback of connection c; it joins through
\* connectionRef.current, with the listId of the render that built c
onreconnected(w, c) ==
  LET i  == w.conns[c].inst
      w1 == IF Live(w, i) THEN [w EXCEPT !.error = NoError] ELSE w
      cur == w1.connectionRef[i]
  IN  IF cur # 0 /\ w1.conns[cur].state = "Connected"
      THEN Issue(w1, [Req("join", i, w.conns[c].clist, "websocket")
                        EXCEPT !.conn = cur, !.chain = "reconn"])
      ELSE w1

\* (mutant) the reconnecting callback also ends the bulk run
onreconnectingEndsRun(w, c) ==
  IF Live(w, w.conns[c].inst)
  THEN [w EXCEPT !.error = ErrConnInterrupted, !.isCompletingAll = FALSE,
                 !.completionProgress = NoProgress]
  ELSE w

\* the onreconnecting callback
onreconnecting(w, c) ==
  IF Live(w, w.conns[c].inst) THEN [w EXCEPT !.error = ErrConnInterrupted]
  ELSE w

\* the catch of a JoinListGroup the server refused
joinRejected(w, r) ==
  IF r.chain = "start" /\ Live(w, r.inst)
  THEN [w EXCEPT !.error = ErrSubscribe] ELSE w

\* (mutant) the updater flips the flag of the item it finds
markCompletedToggles(currentItems, itemId) ==
  LET found == { j \in 1..Len(currentItems) : currentItems[j].id = itemId }
  IN  IF found = {} THEN currentItems
      ELSE LET index == CHOOSE j \in found : \A k \in found : j <= k
           IN  [currentItems EXCEPT ![index].completed = ~@]

\* the handler's setItems updater: findIndex, unchanged when the id is not
\* there or its item is already completed
markCompleted(currentItems, itemId) ==
  LET found == { j \in 1..Len(currentItems) : currentItems[j].id = itemId }
  IN  IF found = {} THEN currentItems
      ELSE LET index == CHOOSE j \in found : \A k \in found : j <= k
           IN  IF currentItems[index].completed THEN currentItems
               ELSE [currentItems EXCEPT ![index].completed = TRUE]

\* (mutant) the handler forgets the item the event names
onCompletionUpdateNoItem(w, c, l, itemId, cc, tt) ==
  LET i == w.conns[c].inst IN
  IF ~(w.conns[c].on /\ l = w.conns[c].clist /\ Live(w, i)) THEN w ELSE
  LET w1 == [w EXCEPT !.completionProgress = [completed |-> cc, total |-> tt]]
  IN  IF cc = tt /\ tt > 0
      THEN [w1 EXCEPT !.isCompletingAll = FALSE,
                      !.completionProgress = NoProgress]
      ELSE w1

\* (mutant) the handler without its final test
onCompletionUpdateNoFinish(w, c, l, itemId, cc, tt) ==
  LET i == w.conns[c].inst IN
  IF ~(w.conns[c].on /\ l = w.conns[c].clist /\ Live(w, i)) THEN w ELSE
  [w EXCEPT !.completionProgress = [completed |-> cc, total |-> tt],
            !.items = IF itemId # 0 THEN markCompleted(@, itemId) ELSE @]

\* the ReceiveTodoCompletionUpdate handler of connection c (removed by
\* hub.off); l, itemId (0: none), cc, tt are the event's arguments
onCompletionUpdate(w, c, l, itemId, cc, tt) ==
  LET i == w.conns[c].inst IN
  IF ~(w.conns[c].on /\ l = w.conns[c].clist /\ Live(w, i)) THEN w ELSE
  LET w1 == [w EXCEPT !.completionProgress = [completed |-> cc, total |-> tt],
                      !.items = IF itemId # 0 THEN markCompleted(@, itemId)
                                ELSE @]
  IN  IF cc = tt /\ tt > 0
      THEN [w1 EXCEPT !.isCompletingAll = FALSE,
                      !.completionProgress = NoProgress]
      ELSE w1

Joins(B) == SumCopies(B, { r \in BagToSet(B) : r.k = "join" })

StartOk(c) ==
  /\ conns[c].state = "Connecting"
  /\ Apply(startResolved(World, c), [op |-> "StartOk"])

StartFail(c) ==
  /\ conns[c].state \in {"Connecting", "StartAborted"}
  /\ Apply(startRejected(World, c), [op |-> "StartFail", conn |-> c])

\* the server adds the connection to the list's group and answers
JoinOk(r) ==
  /\ Awaited(r, "join")
  /\ Apply([Settle(World, r) EXCEPT !.groups = @ \cup {<< r.conn, r.clist >>}],
           [op |-> "JoinOk"])

JoinFail(r) ==
  /\ Awaited(r, "join")
  /\ Apply(joinRejected(Settle(World, r), r),
           [op |-> "JoinFail", chain |-> r.chain, conn |-> r.conn,
            live |-> Live(World, r.inst)])

\* the cleanup's invoke("LeaveListGroup") resolved: its finally stops the
\* connection
leaveResolved(w, r) ==
  hubStop(w, r.conn)

\* (mutant) the stop is chained with then, so a rejected leave skips it
leaveRejectedNoStop(w, r) ==
  w

\* the cleanup's invoke("LeaveListGroup") rejected: the empty catch, then the
\* finally stops the connection
leaveRejected(w, r) ==
  hubStop(w, r.conn)

\* the server removes the connection from the list's group and answers
LeaveOk(r) ==
  /\ Awaited(r, "leave")
  /\ Apply(leaveResolved([Settle(World, r)
                            EXCEPT !.groups = @ \ {<< r.conn, r.clist >>}], r),
           [op |-> "LeaveOk", conn |-> r.conn])

LeaveFail(r) ==
  /\ Awaited(r, "leave")
  /\ Apply(leaveRejected(Settle(World, r), r),
           [op |-> "LeaveFail", conn |-> r.conn])

\* the transport of a started connection breaks; withAutomaticReconnect
ConnDrop(c) ==
  /\ conns[c].state = "Connected" /\ events < MaxEvents
  /\ LET w1 == [World EXCEPT !.conns[c].state = "Reconnecting",
                             !.events = @ + 1,
                             !.groups = { g \in @ : g[1] # c }]
     IN  Apply(rejectCalls(onreconnecting(w1, c), c),
               [op |-> "ConnDrop", conn |-> c])

Reconnected(c) ==
  /\ conns[c].state = "Reconnecting"
  /\ Apply(onreconnected([World EXCEPT !.conns[c].state = "Connected"], c),
           [op |-> "Reconnected", conn |-> c])

\* the reconnect attempts are given up
ConnClosed(c) ==
  /\ conns[c].state = "Reconnecting"
  /\ Apply(hubClose(World, c), [op |-> "ConnClosed", conn |-> c])

\* the server's progress event reaches connection c
PushEvent(c, l, itemId, cc, tt) ==
  /\ conns[c].state = "Connected" /\ conns[c].on /\ cc <= tt
  /\ LET hit == l = conns[c].clist /\ Live(World, conns[c].inst)
     IN  Apply(Commit(World, Taint(onCompletionUpdate(World, c, l, itemId, cc, tt),
                                   conns[c].inst)),
               [op |-> "PushEvent", hit |-> hit, viewed |-> l = listId,
                final |-> cc = tt /\ tt > 0, wasRunning |-> isCompletingAll,
                itemId |-> itemId, cc |-> cc, tt |-> tt,
                open |-> \E j \in 1..Len(items) :
                           items[j].id = itemId /\ ~items[j].completed])

\* ------------------------------------------------------------- list id on the wire
\* strings are sequences of characters
Digits == <<"0", "1", "2", "3", "4", "5", "6", "7", "8", "9">>

\* Number.prototype.toString for a natural number
RECURSIVE toString(_)
toString(n) ==
  IF n < 10 THEN << Digits[n + 1] >>
  ELSE toString(n \div 10) \o << Digits[(n % 10) + 1] >>

\* String.prototype.trim (the only white space here is " ")
RECURSIVE trim(_)
trim(str) ==
  IF str = << >> THEN str
  ELSE IF Head(str) = " " THEN trim(Tail(str))
  ELSE IF str[Len(str)] = " " THEN trim(SubSeq(str, 1, Len(str) - 1))
  ELSE str

\* what the hub may send as updatedListId: null, a number or a string
WireStrings ==
  {<< >>, << " " >>}
    \cup UNION { { toString(l), << " " >> \o toString(l) \o << " " >>,
                   << "0" >> \o toString(l) } : l \in Lists }

WireListIds ==
  {[kind |-> "null", n |-> 0, str |-> << >>]}
    \cup { [kind |-> "number", n |-> l, str |-> << >>] : l \in Lists }
    \cup { [kind |-> "string", n |-> 0, str |-> x] : x \in WireStrings }

\* updatedListId?.toString().trim(); undefined, falsy like the empty string,
\* is written as the empty string
normalise(u) ==
  IF u.kind = "null" THEN << >>
  ELSE IF u.kind = "number" THEN trim(toString(u.n))
  ELSE trim(u.str)

\* (mutant) the filter compares without toString and trim
listIdMatchesStrict(u, lid) ==
  u.kind = "string" /\ u.str # << >> /\ u.str = toString(lid)

\* the handler's filter: both strings truthy and equal
listIdMatches(u, lid) ==
  LET backendListIdStr == normalise(u)
      currentListIdStr == trim(toString(lid))
  IN  /\ backendListIdStr # << >>
      /\ currentListIdStr # << >>
      /\ backendListIdStr = currentListIdStr

\* the ReceiveTodoCompletionUpdate handler of connection c, called with the
\* list id as it came over the wire
receiveTodoCompletionUpdate(w, c, u, itemId, cc, tt) ==
  IF listIdMatches(u, w.conns[c].clist)
  THEN onCompletionUpdate(w, c, w.conns[c].clist, itemId, cc, tt)
  ELSE w

\* the server's progress event reaches connection c with list id u
PushEventWire(c, u, itemId, cc, tt) ==
  /\ conns[c].state = "Connected" /\ conns[c].on /\ cc <= tt
  /\ Apply(Commit(World, Taint(receiveTodoCompletionUpdate(World, c, u, itemId,
                                                           cc, tt),
                               conns[c].inst)),
           [op |-> "PushEventWire", u |-> u, conn |-> c,
            itemId |-> itemId, cc |-> cc, tt |-> tt])

\* ------------------------------------------------------------- specifications
\* one instance in either mode, its bulk operation and its fetches
NextBulk ==
  \/ \E m \in Modes, l \in Lists : Mount(m, l)
  \/ Unmount
  \/ \E r \in Calls("fetch") : \E data \in ServerCollections(r.clist) :
       FetchOk(r, data)
  \/ \E r \in Calls("fetch") : FetchFail(r)
  \/ HandleCompleteAll
  \/ \E r \in Calls("trigger") : TriggerOk(r)
  \/ \E r \in Calls("trigger") : TriggerFail(r)
  \/ \E t \in timers : PollTick(t)

SpecBulk == Init /\ [][NextBulk]_vars

\* the component as App uses it in poll mode: mounted, unmounted, mounted again
NextApp ==
  \/ \E l \in Lists : Mount("vanilla", l)
  \/ Unmount
  \/ \E l \in Lists : Remount("vanilla", l)
  \/ \E r \in Calls("fetch") : \E data \in ServerCollections(r.clist) :
       FetchOk(r, data)
  \/ \E r \in Calls("fetch") : FetchFail(r)
  \/ HandleCompleteAll
  \/ \E r \in Calls("trigger") : TriggerOk(r)
  \/ \E r \in Calls("trigger") : TriggerFail(r)
  \/ \E t \in timers : PollTick(t)

SpecApp == Init /\ [][NextApp]_vars

\* one instance in poll mode, its fetches and the user's optimistic mutations
NextMut ==
  \/ \E l \in Lists : Mount("vanilla", l)
  \/ \E r \in Calls("fetch") : \E data \in ServerCollections(r.clist) :
       FetchOk(r, data)
  \/ \E r \in Calls("fetch") : FetchFail(r)
  \/ \E d \in Drafts : AddItem(d)
  \/ \E r \in Calls("create"), sid \in ItemIds : CreateOk(r, sid)
  \/ \E r \in Calls("create") : CreateFail(r)
  \/ \E j \in 1..MaxItems : ToggleComplete(j)
  \/ \E r \in Calls("toggle") : ToggleOk(r)
  \/ \E r \in Calls("toggle") : ToggleFail(r)
  \/ \E j \in 1..MaxItems : DeleteItem(j)
  \/ \E r \in Calls("delete") : DeleteOk(r)
  \/ \E r \in Calls("delete") : DeleteFail(r)
  \/ \E j \in 1..MaxItems : StartEditing(j)
  \/ CancelEditing
  \/ \E d \in Drafts : UpdateItemDesc(d)
  \/ \E r \in Calls("edit") : EditOk(r)
  \/ \E r \in Calls("edit") : EditFail(r)

SpecMut == Init /\ [][NextMut]_vars

\* one instance in push mode: its connection, its bulk operation and the
\* server's progress events
NextPush ==
  \/ \E l \in Lists : Mount("websocket", l)
  \/ \E r \in Calls("fetch") : \E data \in ServerCollections(r.clist) :
       FetchOk(r, data)
  \/ \E r \in Calls("fetch") : FetchFail(r)
  \/ HandleCompleteAll
  \/ \E r \in Calls("trigger") : TriggerOk(r)
  \/ \E r \in Calls("trigger") : TriggerFail(r)
  \/ \E c \in ConnIds : StartOk(c)
  \/ \E c \in ConnIds : StartFail(c)
  \/ \E r \in Calls("join") : JoinOk(r)
  \/ \E r \in Calls("join") : JoinFail(r)
  \/ \E c \in ConnIds, l \in Lists, itemId \in {0} \cup ItemIds,
        cc \in Counts, tt \in Counts : PushEvent(c, l, itemId, cc, tt)

SpecPush == Init /\ [][NextPush]_vars

\* one instance in push mode whose parent may change its listId in place or
\* unmount it: the life of its connections and their group memberships
NextHub ==
  \/ \E l \in Lists : Mount("websocket", l)
  \/ \E l \in Lists : SetProps("websocket", l)
  \/ Unmount
  \/ \E r \in Calls("fetch") : \E data \in ServerCollections(r.clist) :
       FetchOk(r, data)
  \/ \E r \in Calls("fetch") : FetchFail(r)
  \/ \E c \in ConnIds : StartOk(c)
  \/ \E c \in ConnIds : StartFail(c)
  \/ \E r \in Calls("join") : JoinOk(r)
  \/ \E r \in Calls("join") : JoinFail(r)
  \/ \E r \in Calls("leave") : LeaveOk(r)
  \/ \E r \in Calls("leave") : LeaveFail(r)
  \/ \E c \in ConnIds : ConnDrop(c)
  \/ \E c \in ConnIds : Reconnected(c)
  \/ \E c \in ConnIds : ConnClosed(c)

SpecHub == Init /\ [][NextHub]_vars

\* the item of entry j is being edited inline
Editing(j) == j \in 1..Len(items) /\ editingItemId = items[j].id

\* a bulk run or the generation of sample data is under way
Exclusive == isCompletingAll \/ isMocking

\* one instance whose user starts bulk runs, generates sample data, edits
\* inline, and calls the mutation handlers while one of these is under way
NextGuard ==
  \/ \E m \in Modes, l \in Lists : Mount(m, l)
  \/ \E r \in Calls("fetch") : \E data \in ServerCollections(r.clist) :
       FetchOk(r, data)
  \/ \E r \in Calls("fetch") : FetchFail(r)
  \/ HandleCompleteAll
  \/ \E r \in Calls("trigger") : TriggerOk(r)
  \/ \E r \in Calls("trigger") : TriggerFail(r)
  \/ \E t \in timers : PollTick(t)
  \/ HandleMockData
  \/ \E r \in Calls("mock") : MockOk(r)
  \/ \E r \in Calls("mock") : MockFail(r)
  \/ \E j \in 1..MaxItems : StartEditing(j)
  \/ CancelEditing
  \/ \E d \in Drafts : Exclusive /\ AddItem(d)
  \/ \E j \in 1..MaxItems : (Exclusive \/ Editing(j)) /\ ToggleComplete(j)
  \/ \E j \in 1..MaxItems : (Exclusive \/ Editing(j)) /\ DeleteItem(j)
  \/ \E d \in Drafts : Exclusive /\ UpdateItemDesc(d)

SpecGuard == Init /\ [][NextGuard]_vars

\* one instance mounted in push mode whose parent changes its listId or its
\* mode in place, once; bulk runs are started while it is in push mode
NextSwitch ==
  \/ \E l \in Lists : Mount("websocket", l)
  \/ \E m \in Modes, l \in Lists : events = 0 /\ SetProps(m, l)
  \/ \E r \in Calls("fetch") : \E data \in ServerCollections(r.clist) :
       FetchOk(r, data)
  \/ \E r \in Calls("fetch") : FetchFail(r)
  \/ mode = "websocket" /\ HandleCompleteAll
  \/ \E r \in Calls("trigger") : TriggerOk(r)
  \/ \E r \in Calls("trigger") : TriggerFail(r)
  \/ \E c \in ConnIds : StartOk(c)
  \/ \E c \in ConnIds : StartFail(c)
  \/ \E r \in Calls("join") : JoinOk(r)
  \/ \E r \in Calls("join") : JoinFail(r)
  \/ \E r \in Calls("leave") : LeaveOk(r)
  \/ \E r \in Calls("leave") : LeaveFail(r)

SpecSwitch == Init /\ [][NextSwitch]_vars

\* SpecBulk with the scheduling the browser gives: an active interval keeps
\* firing, and an awaited trigger request is answered
SpecBulkFair ==
  /\ Init /\ [][NextBulk]_vars
  /\ WF_vars(\E t \in timers : PollTick(t))
  /\ WF_vars(\E r \in Calls("trigger") : TriggerOk(r) \/ TriggerFail(r))

\* one instance in push mode that receives progress events with list ids of
\* every shape
NextWire ==
  \/ \E l \in Lists : Mount("websocket", l)
  \/ \E r \in Calls("fetch") : \E data \in ServerCollections(r.clist) :
       FetchOk(r, data)
  \/ HandleCompleteAll
  \/ \E c \in ConnIds : StartOk(c)
  \/ \E r \in Calls("join") : JoinOk(r)
  \/ \E c \in ConnIds, u \in WireListIds, itemId \in {0} \cup ItemIds,
        cc \in Counts : PushEventWire(c, u, itemId, cc, MaxCount)

SpecWire == Init /\ [][NextWire]_vars

\* one instance whose parent changes mode and list in place while connections
\* start, fail to start and deliver progress events
NextProgress ==
  \/ \E l \in Lists : Mount("websocket", l)
  \/ \E m \in Modes, l \in Lists : events <= 1 /\ SetProps(m, l)
  \/ \E r \in Calls("fetch") : \E data \in ServerCollections(r.clist) :
       Len(data) = MaxItems /\ FetchOk(r, data)
  \/ events = 0 /\ HandleCompleteAll
  \/ \E r \in Calls("trigger") : TriggerOk(r)
  \/ \E c \in ConnIds : StartOk(c)
  \/ \E c \in ConnIds : StartFail(c)
  \/ \E r \in Calls("join") : JoinOk(r)
  \/ \E r \in Calls("leave") : LeaveOk(r)
  \/ \E c \in ConnIds, l \in Lists, cc \in Counts :
       PushEvent(c, l, 0, cc, MaxCount)

SpecProgress == Init /\ [][NextProgress]_vars

\* one instance in push mode with bulk runs whose connection drops, comes
\* back or is given up
NextDrop ==
  \/ \E l \in Lists : Mount("websocket", l)
  \/ \E r \in Calls("fetch") : \E data \in ServerCollections(r.clist) :
       FetchOk(r, data)
  \/ HandleCompleteAll
  \/ \E r \in Calls("trigger") : TriggerOk(r)
  \/ \E c \in ConnIds : StartOk(c)
  \/ \E r \in Calls("join") : JoinOk(r)
  \/ \E c \in ConnIds : ConnDrop(c)
  \/ \E c \in ConnIds : Reconnected(c)
  \/ \E c \in ConnIds : ConnClosed(c)

SpecDrop == Init /\ [][NextDrop]_vars

\* ------------------------------------------------------------- claims
\* C1: once every optimistic mutation that was outstanding has failed and
\* rolled back (and nothing else wrote ItemStore meanwhile), ItemStore equals
\* ItemStore as it was before the first of them was attempted.
C1_RollbackRestoresStore ==
  [][ (mounted /\ MutPending(World) # {} /\ MutPending(World') = {}
         /\ ~mutTaint /\ last'.op \in {"CreateFail", "ToggleFail",
                                       "DeleteFail", "EditFail"})
        => items' = mutBase ]_vars

\* C2: in poll mode a fetch result that is non-empty and all completed stops
\* the recurring fetch and ends the run once; a later poll result of that
\* same run (one that was in flight when completion was detected) that again
\* shows all items completed changes neither BulkOperationState nor the timers.
C2_LateResultChangesNothing ==
  [][ (last'.op = "FetchOk" /\ last'.done /\ last'.stale)
        => (isCompletingAll' = isCompletingAll /\ timers' = timers) ]_vars

\* C3: in push mode a progress event for the viewed list whose completedCount
\* equals its totalCount > 0 leaves BulkOperationState Idle and the progress
\* cleared, whether it ends a run or arrives after the run has ended.
C3_FinalEventEndsRun ==
  (last.op = "PushEvent" /\ last.hit /\ last.viewed /\ last.final)
    => (~isCompletingAll /\ completionProgress = NoProgress)

C3_Witness ==
  /\ last.op = "PushEvent" /\ last.hit /\ last.viewed /\ last.final
  /\ last.wasRunning /\ mode = "websocket"
  /\ ~isCompletingAll /\ completionProgress = NoProgress

\* C4: handleCompleteAll with an empty ItemStore, or with every item already
\* completed, leaves BulkOperationState, progress, the error status and the
\* timers as they were and issues no request.
C4_NothingToComplete ==
  [][ (last'.op = "CompleteAll" /\ AllCompleted(items))
        => /\ isCompletingAll' = isCompletingAll
           /\ completionProgress' = completionProgress
           /\ pending' = pending /\ timers' = timers
           /\ error' = error /\ items' = items ]_vars

\* C4 witness: the handler was called, Idle, on a non-empty list whose items
\* are all completed
C4_Witness ==
  /\ last.op = "CompleteAll" /\ last.rejected
  /\ ~isCompletingAll /\ ~isMocking
  /\ Len(items) > 0 /\ AllCompleted(items)

\* C5: in push mode the client's connections are never members of two list
\* groups at the same time, in particular not while the observed list is
\* being switched.
C5_OneGroupAtATime == Cardinality(groups) <= 1

\* C6: a reconnect makes at most one JoinListGroup invocation, and a
\* JoinListGroup is only ever invoked on a connection that is in the
\* Connected state.
C6_RejoinOncePerReconnect ==
  [][ /\ (last'.op = "Reconnected" => Joins(pending') <= Joins(pending) + 1)
      /\ \A r \in BagToSet(pending') :
           (r.k = "join" /\ CopiesIn(r, pending') > CopiesIn(r, pending))
             => conns'[r.conn].state = "Connected" ]_vars

C6_Witness ==
  /\ last.op = "Reconnected"
  /\ \E r \in BagToSet(pending) :
       r.k = "join" /\ r.chain = "reconn" /\ conns[r.conn].state = "Connected"

\* C7: no recurring timer outlives the configuration that created it: every
\* active timer belongs to the mounted instance and was created under the
\* listId and mode it has now.
C7_NoTimerOutlivesConfig ==
  \A t \in timers :
    mounted /\ t.inst = inst /\ t.clist = listId /\ t.cmode = mode

\* C8: while the mounted instance holds an active polling timer, the bulk
\* operation is Running and the mode is poll.
C8_TimerOnlyWhileRunning ==
  (mounted /\ pollingIntervalRef[inst] # 0)
    => (isCompletingAll /\ mode = "vanilla")

\* C9: at most one recurring poll fetch timer is active at any time.
C9_AtMostOneTimer == Cardinality(timers) <= 1

\* C10: when the trigger request of the mounted instance fails, the state
\* after the failure has been handled is Idle with progress cleared and the
\* trigger's error status shown, no timer has been created and no trigger
\* request has been issued.
C10_TriggerFailureSurfaced ==
  [][ (last'.op = "TriggerFail" /\ last'.live)
        => /\ ~isCompletingAll'
           /\ completionProgress' = NoProgress
           /\ error' \in {ErrTriggerWs, ErrTriggerVanilla}
           /\ timers' \subseteq timers
           /\ Calls("trigger")' \subseteq Calls("trigger") ]_vars

\* C11: when a polling fetch of the mounted instance fails, the recurring
\* fetch is stopped, BulkOperationState is Idle, the polling failure is the
\* error status shown, and no fetch is issued in place of the failed one.
C11_PollFailureStopsRun ==
  [][ (last'.op = "FetchFail" /\ last'.polling /\ last'.live)
        => /\ ~isCompletingAll'
           /\ pollingIntervalRef'[inst'] = 0
           /\ error' = ErrFetchPolling
           /\ Calls("fetch")' \subseteq Calls("fetch") ]_vars

\* C12: when the create request of the mounted instance fails, the
\* provisional entry is gone from ItemStore, every other entry is as it was,
\* the create-failure message is the error status and the draft is back in
\* the form; if the failure follows the submission directly, ItemStore is
\* the store as it was before the submission.
C12_CreateFailureRollsBack ==
  [][ (last'.op = "CreateFail" /\ last'.live)
        => /\ last'.id \notin IdsOf(items')
           /\ items' = SelectSeq(items, LAMBDA it : it.id # last'.id)
           /\ error' = ErrAdd
           /\ newItemDesc' = last'.desc
           /\ (last.op = "AddItem" /\ ~last.rejected
                 /\ Cardinality(MutPending(World)) = 1)
                => items' = mutBase ]_vars

C12_Witness ==
  /\ last.op = "CreateFail" /\ last.live
  /\ error = ErrAdd /\ newItemDesc = "a" /\ Len(items) = 1
  /\ \A j \in 1..Len(items) : items[j].id < TempBase

\* C13: in poll mode a polling fetch result of the mounted instance that is
\* empty or holds an incomplete item leaves BulkOperationState and the
\* recurring fetch as they were (Running and active); a result that is
\* non-empty and all completed leaves the state Idle, progress cleared and
\* the recurring fetch stopped.
C13_PollResultDecidesRun ==
  [][ (last'.op = "FetchOk" /\ last'.polling /\ last'.live
         /\ mode = "vanilla")
        => IF Len(items') > 0 /\ AllCompleted(items')
           THEN /\ ~isCompletingAll'
                /\ completionProgress' = NoProgress
                /\ pollingIntervalRef'[inst'] = 0
                /\ \A t \in timers' : t.inst # inst'
           ELSE /\ isCompletingAll' = isCompletingAll
                /\ timers' = timers
                /\ pollingIntervalRef' = pollingIntervalRef ]_vars

C13_Witness ==
  /\ last.op = "FetchOk" /\ last.polling /\ last.live /\ ~last.done
  /\ mode = "vanilla" /\ isCompletingAll /\ pollingIntervalRef[inst] # 0
  /\ Len(items) = MaxItems /\ \A j \in 1..Len(items) : ~items[j].completed

\* C14: a progress event for the viewed list with completedCount <
\* totalCount that names an item marks that item completed in ItemStore
\* (every other entry as it was), sets progress to exactly the event's
\* counts and leaves BulkOperationState as it was (Running stays Running).
C14_ProgressEventApplied ==
  [][ (last'.op = "PushEvent" /\ last'.hit /\ last'.viewed
         /\ last'.cc < last'.tt /\ last'.itemId # 0)
        => /\ items' = [j \in 1..Len(items) |->
                          IF items[j].id = last'.itemId
                          THEN [items[j] EXCEPT !.completed = TRUE]
                          ELSE items[j]]
           /\ completionProgress' =
                [completed |-> last'.cc, total |-> last'.tt]
           /\ isCompletingAll' = isCompletingAll ]_vars

C14_Witness ==
  /\ last.op = "PushEvent" /\ last.hit /\ last.viewed
  /\ last.cc < last.tt /\ last.itemId # 0 /\ last.wasRunning
  /\ isCompletingAll
  /\ completionProgress = [completed |-> last.cc, total |-> last.tt]
  /\ \E j \in 1..Len(items) : items[j].id = last.itemId /\ items[j].completed
  /\ \E j \in 1..Len(items) : ~items[j].completed

C16_BusyMutationRejected ==
  [][ ( /\ last'.op \in {"AddItem", "Toggle", "Delete", "UpdateItemDesc"}
        /\ \/ isCompletingAll
           \/ isMocking
           \/ last'.op \in {"Toggle", "Delete"} /\ editingItemId = last'.id )
        => /\ items' = items
           /\ pending' = pending
           /\ error' = error ]_vars

C16_Witness ==
  /\ last.op = "Toggle" /\ last.rejected
  /\ ~isCompletingAll /\ ~isMocking
  /\ editingItemId = last.id
  /\ \E j \in 1..Len(items) : items[j].id = last.id /\ ~items[j].completed

\* C17: Complete All called while a bulk run is under way or while sample
\* data is being generated issues no trigger request and leaves the bulk
\* state, the progress counters and the polling timer as they were.
C17_BusyCompleteAllIsNoOp ==
  [][ (last'.op = "CompleteAll" /\ (isCompletingAll \/ isMocking))
        => /\ pending' = pending
           /\ isCompletingAll' = isCompletingAll
           /\ completionProgress' = completionProgress
           /\ timers' = timers
           /\ pollingIntervalRef' = pollingIntervalRef ]_vars

C17_Witness ==
  /\ last.op = "CompleteAll" /\ last.rejected
  /\ isMocking /\ ~isCompletingAll
  /\ Calls("trigger") = {}
  /\ \E j \in 1..Len(items) : ~items[j].completed

\* C18: whenever no bulk run is under way the progress counters are cleared,
\* also after progress events that arrive while no bulk run is under way.
C18_ProgressOnlyWhileRunning ==
  (mounted /\ ~isCompletingAll) => completionProgress = NoProgress

\* C19: when the instance leaves push mode or its list changes while in push
\* mode, the progress counters are cleared and no bulk run is left under way.
C19_SwitchEndsPushRun ==
  [][ (last'.op = "SetProps" /\ mode = "websocket")
        => completionProgress' = NoProgress /\ ~isCompletingAll' ]_vars

C21_TornDownHandlersSilent ==
  [][ ( /\ last'.op \in {"LeaveOk", "LeaveFail", "ConnDrop", "Reconnected",
                         "ConnClosed"}
        /\ mounted
        /\ ~conns[last'.conn].on )
        => /\ items' = items
           /\ completionProgress' = completionProgress
           /\ isCompletingAll' = isCompletingAll
           /\ error' = error
           /\ Joins(pending') <= Joins(pending) ]_vars

\* C22: at most one connection exists that is starting or started and whose
\* teardown has not begun (no stop was called on it and no leave that ends in
\* its stop is awaited).
C22_SingleOpenConnection ==
  Cardinality({ c \in ConnIds :
                  /\ conns[c].state \in {"Connecting", "Connected",
                                         "Reconnecting"}
                  /\ \A r \in Calls("leave") : r.conn # c }) <= 1

\* C30: the catch of a start that failed clears the connection reference only
\* when the reference still holds that connection; the reference to another,
\* newer connection is left alone.
C30_StartFailureKeepsNewerRef ==
  [][ (last'.op = "StartFail"
         /\ \A i \in InstIds : connectionRef[i] # last'.conn)
        => connectionRef' = connectionRef ]_vars

\* C23: when a progress event has just marked an item completed, the answer
\* of a fetch that was issued before the event arrived does not leave that
\* item in the store as not completed.
C23_PushCompletionSurvivesFetch ==
  [][ ( /\ last.op = "PushEvent" /\ last.hit /\ last.viewed /\ ~last.final
        /\ \E j \in 1..Len(items) :
             items[j].id = last.itemId /\ items[j].completed
        /\ last'.op = "FetchOk" /\ last'.live )
        => \A j \in 1..Len(items') :
             items'[j].id = last.itemId => items'[j].completed ]_vars

\* the manual (non-polling) fetches in flight, counted with their copies
ManualFetches(B) ==
  SumCopies(B, { r \in BagToSet(B) : r.k = "fetch" /\ ~r.polling })

C25_CompletionMeansAllCompleted ==
  [][ ( /\ isCompletingAll /\ ~isCompletingAll' /\ mounted'
        /\ \/ last'.op = "FetchOk" /\ last'.done
           \/ last'.op = "PushEvent" /\ last'.hit /\ last'.final )
        => Len(items') > 0 /\ AllCompleted(items') ]_vars

\* C26: when the JoinListGroup invoked after a reconnect is refused, an error
\* status is shown, and the connection is neither stopped nor dropped from
\* the connection reference.
C26_RejoinFailureSurfaced ==
  [][ (last'.op = "JoinFail" /\ last'.chain = "reconn" /\ last'.live)
        => /\ error' # NoError
           /\ conns' = conns
           /\ connectionRef' = connectionRef ]_vars

\* C27: the answer, success or failure, of a polling fetch whose run has
\* ended leaves a later run alone: the later run stays under way, its
\* recurring fetch stays active and the store is not replaced.
C27_EarlierRunAnswerIgnored ==
  [][ ( /\ last'.op \in {"FetchOk", "FetchFail"}
        /\ last'.polling /\ last'.stale /\ last'.live
        /\ isCompletingAll )
        => /\ isCompletingAll'
           /\ timers' = timers
           /\ pollingIntervalRef' = pollingIntervalRef
           /\ items' = items ]_vars

\* C28: the rollback of a failed mutation touches only the item of that
\* mutation: the other items, in their order and with their fields, are the
\* same right after the rollback as right before it.
C28_RollbackTouchesOneItem ==
  [][ ( /\ last'.op \in {"CreateFail", "ToggleFail", "DeleteFail", "EditFail"}
        /\ last'.live )
        => SelectSeq(items', LAMBDA it : it.id # last'.id)
             = SelectSeq(items, LAMBDA it : it.id # last'.id) ]_vars

\* C29: in poll mode, while a bulk run is under way, its trigger request is
\* still awaited or the recurring fetch is active; and in a run of the system
\* where fetches are answered again and again, and polling fetches of the
\* mounted instance, as long as there are any, are answered again and again
\* with a non-empty, all-completed collection, a bulk run under way comes to
\* its end.
C29_RunningNeverStuck ==
  /\ [] ( (mounted /\ mode = "vanilla" /\ isCompletingAll)
            => \/ \E r \in Calls("trigger") : r.inst = inst
               \/ \E t \in timers :
                    t.inst = inst /\ t.id = pollingIntervalRef[inst] )
  /\ ( /\ []<>(Calls("fetch") = {})
       /\ \/ <>[](~mounted \/ \A r \in Calls("fetch") : ~r.polling)
          \/ []<>(last.op = "FetchOk" /\ last.polling /\ last.done
                    /\ last.live) )
       => ( (mounted /\ mode = "vanilla" /\ isCompletingAll)
              ~> ~(mounted /\ isCompletingAll) )

C29_Witness ==
  /\ last.op = "FetchOk" /\ last.polling /\ last.done /\ last.live
  /\ ~last.stale
  /\ mounted /\ mode = "vanilla" /\ ~isCompletingAll
  /\ timers = {} /\ Calls("trigger") = {}

\* C31: a progress event whose list id is absent, blank, or after toString
\* and trim differs from the viewed list id changes neither the items, the
\* progress counters, the bulk state nor the error status; an event whose
\* list id is the viewed list's number, or a string of its digits, is applied.
C31_ListIdFilter ==
  [][ last'.op = "PushEventWire" =>
        LET u == last'.u
            mine == toString(listId)
        IN  /\ ( \/ u.kind = "null"
                 \/ u.kind = "number" /\ u.n # listId
                 \/ u.kind = "string" /\ trim(u.str) # mine )
                 => /\ items' = items
                    /\ completionProgress' = completionProgress
                    /\ isCompletingAll' = isCompletingAll
                    /\ error' = error
            /\ ( /\ \/ u.kind = "number" /\ u.n = listId
                    \/ u.kind = "string" /\ u.str = mine
                 /\ last'.cc < last'.tt )
                 => completionProgress' =
                      [completed |-> last'.cc, total |-> last'.tt] ]_vars

C31_Witness ==
  /\ last.op = "PushEventWire"
  /\ last.u.kind = "number" /\ last.u.n = listId
  /\ last.cc < last.tt /\ last.itemId # 0
  /\ completionProgress = [completed |-> last.cc, total |-> last.tt]
  /\ \E j \in 1..Len(items) : items[j].id = last.itemId /\ items[j].completed

\* C32: a progress event of the viewed list that names an item leaves the
\* items unchanged when no item has that id or the item is already completed;
\* otherwise the items keep their length, order and fields and only that
\* item's completed flag becomes true; applying the event to the result again
\* changes nothing.
C32_PushCompletionIdempotent ==
  [][ (last'.op = "PushEvent" /\ last'.hit /\ last'.itemId # 0) =>
        LET id == last'.itemId
            open == { j \in 1..Len(items) :
                        items[j].id = id /\ ~items[j].completed }
        IN  /\ open = {} => items' = items
            /\ Len(items') = Len(items)
            /\ \A j \in 1..Len(items) :
                 items'[j] = IF j \in open
                             THEN [items[j] EXCEPT !.completed = TRUE]
                             ELSE items[j]
            /\ markCompleted(items', id) = items' ]_vars

C32_Witness ==
  /\ last.op = "PushEvent" /\ last.hit /\ last.itemId # 0 /\ last.open
  /\ \E j \in 1..Len(items) : items[j].id = last.itemId /\ items[j].completed
  /\ \E j \in 1..Len(items) : items[j].id # last.itemId /\ ~items[j].completed

\* C33: an accepted complete-all in push mode sets the progress counters to
\* the number of completed items and the number of items in the same step
\* that issues the trigger request, and in every state whose mode is poll the
\* progress counters are null.
C33_ProgressOnlyInPushMode ==
  /\ [][ (last'.op = "CompleteAll" /\ ~last'.rejected /\ mode = "websocket")
           => /\ completionProgress' =
                   [completed |-> CountCompleted(items), total |-> Len(items)]
              /\ \E r \in Calls("trigger")' : r.inst = inst ]_vars
  /\ [](mounted /\ mode = "vanilla" => completionProgress = NoProgress)

\* C34: in every state of a mounted instance the bulk operation is not
\* Running while sample-data generation is active, and sample-data generation
\* is active only while its createMockData call or the fetch that follows it
\* is still unanswered, so it ends with its flag cleared whatever the answers.
C34_BulkAndMockExclusive ==
  mounted =>
    /\ ~(isCompletingAll /\ isMocking)
    /\ isMocking =>
         \E r \in BagToSet(pending) :
           /\ r.inst = inst
           /\ r.k = "mock" \/ (r.k = "fetch" /\ r.chain = "mock")

C34_Witness ==
  /\ mounted /\ isMocking /\ ~isCompletingAll
  /\ last.op = "CompleteAll" /\ last.rejected
  /\ \E r \in Calls("fetch") : r.inst = inst /\ r.chain = "mock"

\* C35: when the transport of the held connection starts reconnecting or
\* closes, the callbacks set the interrupted / lost error status and leave
\* the bulk state, the progress counters, the items and the held connection
\* reference as they were.
C35_TransportCallbacksAdvisory ==
  [][ last'.op \in {"ConnDrop", "ConnClosed"} =>
        /\ isCompletingAll' = isCompletingAll
        /\ completionProgress' = completionProgress
        /\ items' = items
        /\ connectionRef' = connectionRef
        /\ (mounted /\ connectionRef[inst] = last'.conn) =>
             error' \in (IF last'.op = "ConnClosed" THEN {ErrConnLost}
                         ELSE {ErrConnInterrupted, ErrSubscribe}) ]_vars

C35_Witness ==
  /\ last.op = "ConnDrop" /\ mounted /\ connectionRef[inst] = last.conn
  /\ isCompletingAll /\ completionProgress # NoProgress /\ items # << >>
  /\ error = ErrConnInterrupted

\* C36: the answer to a fetch that was issued for another list than the one
\* now viewed does not replace the items, so once no fetch is outstanding the
\* items are those of the viewed list.
C36_OldListAnswerIgnored ==
  [][ (last'.op = "FetchOk" /\ last'.live /\ last'.clist # listId')
        => items' = items ]_vars

\* C37: an accepted add appends the provisional entry at the end of the
\* items; when its create call succeeds, the entry with the provisional id is
\* replaced in place by the server's item, and the length, the order and every
\* other entry stay as they were.
C37_CreateReplacesInPlace ==
  [][ /\ (last'.op = "AddItem" /\ ~last'.rejected) =>
           /\ Len(items') = Len(items) + 1
           /\ SubSeq(items', 1, Len(items)) = items
           /\ LET new == items'[Len(items')]
              IN  /\ new.id \notin IdsOf(items)
                  /\ new.description = last'.desc
                  /\ ~new.completed
                  /\ new.todoListId = listId
      /\ (last'.op = "CreateOk" /\ last'.live) =>
           /\ Len(items') = Len(items)
           /\ \A j \in 1..Len(items) :
                items'[j] = IF items[j].id = last'.id
                            THEN [id |-> last'.sid, todoListId |-> last'.clist,
                                  description |-> last'.desc,
                                  completed |-> FALSE]
                            ELSE items[j] ]_vars

C37_Witness ==
  /\ last.op = "CreateOk" /\ last.live
  /\ Len(items) = 2
  /\ items[1].id = last.sid /\ items[1].id < TempBase
  /\ items[2].id >= TempBase

\* C38: saving an inline edit whose draft is blank, or equal to the current
\* description of the edited item, clears the editing id and the draft, issues
\* no remote call and changes neither the items nor the error status.
C38_BlankOrSameEditCancels ==
  [][ ( /\ last'.op = "UpdateItemDesc"
        /\ \/ last'.desc \in {"", " "}
           \/ \E j \in 1..Len(items) :
                /\ items[j].id = editingItemId
                /\ items[j].description = last'.desc )
        => /\ editingItemId' = 0
           /\ editingItemDesc' = ""
           /\ pending' = pending
           /\ items' = items
           /\ error' = error ]_vars

C38_Witness ==
  /\ last.op = "UpdateItemDesc" /\ last.desc = "a"
  /\ ~isCompletingAll /\ ~isMocking
  /\ \E j \in 1..Len(items) :
       items[j].id = last.id /\ items[j].description = "a"
  /\ editingItemId = 0 /\ error # NoError

\* C39: after a fetch of the mounted instance succeeds no fetch error is
\* shown, after one of its mutations succeeds no mutation error is shown,
\* and after its connection started or reconnected no connection error is
\* shown.
C39_SuccessClearsItsErrorClass ==
  [][ /\ (last'.op = "FetchOk" /\ last'.live)
           => error' \notin {ErrFetch, ErrFetchPolling}
      /\ (last'.op \in {"CreateOk", "ToggleOk", "DeleteOk", "EditOk"}
            /\ last'.live)
           => error' \notin {ErrAdd, ErrToggle, ErrDelete, ErrEdit}
      /\ (last'.op = "Reconnected" /\ mounted
            /\ connectionRef[inst] = last'.conn)
           => error' \notin {ErrConnLost, ErrConnInterrupted, ErrConnect} ]_vars

\* C40: when a fetch of the mounted instance fails, the items are left as
\* they were and the fetch error status is shown (the polling message for a
\* polling fetch); the failure of the manual fetch made by sample-data
\* generation reaches that caller, which shows its own failure message and
\* clears its flag.
C40_FetchFailurePreservesItems ==
  [][ (last'.op = "FetchFail" /\ last'.live)
        => /\ items' = items
           /\ error' = IF last'.chain = "mock" THEN ErrMock
                       ELSE IF last'.polling THEN ErrFetchPolling
                       ELSE ErrFetch
           /\ last'.chain = "mock" => ~isMocking' ]_vars

====
